---------------------------- MODULE Spec2Model ----------------------------
(***************************************************************************)
(* Personal Inflation Impact (app/main.py): the inference pipeline         *)
(*   payload -> normalize_weights -> latest_row -> make_features           *)
(*           -> CLF.predict_proba / REG.predict -> response dict           *)
(* and the UI handler run(), which walks the same helpers.                 *)
(*                                                                         *)
(* Numbers.  Python floats are modelled by the value classes that decide   *)
(* the code's branches: exact rationals n/d for ordinary finite values,    *)
(* "huge" for a finite double above half the double range (1e308),         *)
(* "tiny" for a positive quotient below every modelled rational            *)
(* (x / 1e308), "inf" and "nan".  Rounding error of ordinary arithmetic    *)
(* (1 ulp) is not modelled; overflow, inf and nan are.                     *)
(***************************************************************************)
EXTENDS Integers, Sequences, FiniteSets, TLC

\* main.py:13
CATS == <<"Food", "Housing", "Transport", "Health", "Recreation", "Misc">>

CatSet == {CATS[i] : i \in 1..Len(CATS)}

(***************************************************************************)
(* Python values that can sit in a request payload (a JSON object).        *)
(***************************************************************************)
PyNum(n) == [t |-> "num", n |-> n]
PyHuge == [t |-> "huge", n |-> 0]      \* 1e308
PyInf == [t |-> "inf", n |-> 0]        \* 1e400 / Infinity as json.loads reads it
PyNaN == [t |-> "nan", n |-> 0]        \* NaN as json.loads reads it
PyStr == [t |-> "str", n |-> 0]        \* a non-numeric string, "abc"
PyNull == [t |-> "null", n |-> 0]      \* null -> None
PyObj == [t |-> "obj", n |-> 0]        \* a nested object -> dict

(***************************************************************************)
(* Floats.                                                                 *)
(***************************************************************************)
RECURSIVE GCD(_, _)
GCD(a, b) == IF b = 0 THEN a ELSE GCD(b, a % b)

Abs(x) == IF x < 0 THEN -x ELSE x

\* the float n/d, in lowest terms with d > 0
Rat(n, d) ==
    LET g == GCD(Abs(n), Abs(d))
        s == IF d < 0 THEN -1 ELSE 1
    IN  [k |-> "fin", n |-> s * (n \div g), d |-> s * (d \div g)]

FZero == [k |-> "fin", n |-> 0, d |-> 1]
FOne == [k |-> "fin", n |-> 1, d |-> 1]
FTiny == [k |-> "tiny", n |-> 0, d |-> 1]
FHuge == [k |-> "huge", n |-> 0, d |-> 1]
FInf == [k |-> "inf", n |-> 0, d |-> 1]
FNaN == [k |-> "nan", n |-> 0, d |-> 1]

\* x > 0.0 as Python evaluates it (False for nan)
FPositive(x) == \/ x.k \in {"tiny", "huge", "inf"}
                \/ x.k = "fin" /\ x.n > 0

\* a + b for a, b >= 0 and not nan: 1e308 + 1e308 overflows to inf, and
\* 1e308 absorbs an ordinary addend
FAdd(a, b) ==
    CASE a.k = "inf" \/ b.k = "inf" -> FInf
      [] a.k = "huge" /\ b.k = "huge" -> FInf
      [] a.k = "huge" \/ b.k = "huge" -> FHuge
      [] OTHER -> Rat(a.n * b.d + b.n * a.d, a.d * b.d)

\* x / s for x >= 0 and s > 0, both not nan
FDiv(x, s) ==
    CASE s.k = "inf" -> IF x.k = "inf" THEN FNaN ELSE FZero
      [] s.k = "huge" -> IF x.k = "huge" THEN FOne
                         ELSE IF FPositive(x) THEN FTiny ELSE FZero
      [] OTHER -> Rat(x.n * s.d, x.d * s.n)

\* what float(v) raises, "none" when it returns
FloatErr(v) ==
    CASE v.t = "str" -> "ValueError"
      [] v.t \in {"null", "obj"} -> "TypeError"
      [] OTHER -> "none"

\* float(v) where it returns
Float(v) ==
    CASE v.t = "num" -> Rat(v.n, 1)
      [] v.t = "huge" -> FHuge
      [] v.t = "inf" -> FInf
      [] v.t = "nan" -> FNaN
      [] OTHER -> FZero

\* max(0.0, x): x when x > 0.0, else the first argument
Clamp0(x) == IF FPositive(x) THEN x ELSE FZero

(***************************************************************************)
(* normalize_weights (main.py:40-43).  raw is [none, items]: none for      *)
(* None, items the dict.                                                   *)
(***************************************************************************)
EmptyDict == [c \in {} |-> PyNum(0)]

Dict(raw) == IF raw.none THEN EmptyDict ELSE raw.items

\* raw.get(c, 0)
Get(d, c) == IF c \in DOMAIN d THEN d[c] ELSE PyNum(0)

ZeroMap == [c \in CatSet |-> FZero]

RECURSIVE SumClamped(_, _)
\* sum(max(0.0, float(raw.get(c, 0))) for c in CATS), left to right
SumClamped(d, i) ==
    IF i = 0 THEN FZero
    ELSE FAdd(SumClamped(d, i - 1), Clamp0(Float(Get(d, CATS[i]))))

\* the first category, in CATS order, whose entry float() rejects (0: none)
FirstBad(d) ==
    LET bad == {i \in 1..Len(CATS) : FloatErr(Get(d, CATS[i])) # "none"}
    IN  IF bad = {} THEN 0 ELSE CHOOSE i \in bad : \A j \in bad : i <= j

NormalizeWeightsMutSumAll(raw) ==
    LET d == Dict(raw)
        b == {k \in DOMAIN d : FloatErr(d[k]) # "none"}
        s0 == SumClamped(d, Len(CATS))
        s1 == IF "Other" \in DOMAIN d /\ b = {}
              THEN FAdd(s0, Clamp0(Float(d["Other"]))) ELSE s0
        s == IF s1 = FZero THEN FOne ELSE s1
    IN  IF b # {}
        THEN [err |-> FloatErr(d[CHOOSE k \in b : TRUE]), val |-> ZeroMap]
        ELSE [err |-> "none",
              val |-> [c \in CatSet |-> FDiv(Clamp0(Float(Get(d, c))), s)]]

NormalizeWeightsMutEqualSplit(raw) ==
    LET d == Dict(raw)
        b == FirstBad(d)
        s0 == SumClamped(d, Len(CATS))
    IN  IF b # 0
        THEN [err |-> FloatErr(Get(d, CATS[b])), val |-> ZeroMap]
        ELSE IF s0 = FZero
        THEN [err |-> "none", val |-> [c \in CatSet |-> Rat(1, Len(CATS))]]
        ELSE [err |-> "none",
              val |-> [c \in CatSet |-> FDiv(Clamp0(Float(Get(d, c))), s0)]]

normalize_weights(raw) ==
    LET d == Dict(raw)
        b == FirstBad(d)
        s0 == SumClamped(d, Len(CATS))
        s == IF s0 = FZero THEN FOne ELSE s0          \* ... or 1.0
    IN  IF b # 0
        THEN [err |-> FloatErr(Get(d, CATS[b])), val |-> ZeroMap]
        ELSE [err |-> "none",
              val |-> [c \in CatSet |-> FDiv(Clamp0(Float(Get(d, c))), s)]]

(***************************************************************************)
(* The index dataset (data/cpih_wide_yoy.csv, main.py:26).  A file is a    *)
(* set of columns and a sequence of rows in file order; a row carries its  *)
(* date (a month ordinal), the Headline cell and one cell per category.    *)
(* Cells are in thousandths of a percentage point; an empty cell is read   *)
(* by pandas as nan.                                                       *)
(***************************************************************************)
MaxDate == 2
MaxRows == 2

Cell(n) == [k |-> "fin", n |-> n]
EmptyCell == [k |-> "nan", n |-> 0]

CatIndex(c) == CHOOSE i \in 1..Len(CATS) : CATS[i] = c

\* the record published for month d; e names the category whose cell the
\* publication left empty ("none": every cell is filled)
Row(d, e) ==
    [date |-> d,
     Headline |-> Cell(2000 + 104 * d),
     cells |-> [c \in CatSet |->
                  IF c = e THEN EmptyCell
                  ELSE Cell(1500 + 300 * CatIndex(c) + 32 * d)]]

\* the complete records, and the newest month published with an empty cell
Rows == {Row(d, "none") : d \in 1..MaxDate} \cup {Row(MaxDate, "Health")}

AllColumns == CatSet \cup {"Headline"}

\* a complete file, and one published without the Transport column
ColumnSets == {AllColumns, AllColumns \ {"Transport"}}

\* the Series df.iloc[i] of a file with columns cols
Series(cols, row) ==
    [cols |-> cols, date |-> row.date, Headline |-> row.Headline, cells |-> row.cells]

NoSeries ==
    [cols |-> {}, date |-> 0, Headline |-> EmptyCell,
     cells |-> [c \in CatSet |-> EmptyCell]]

DistinctDates(rows) ==
    \A i, j \in 1..Len(rows) : i # j => rows[i].date # rows[j].date

Datasets ==
    {rows \in UNION {[1..n -> Rows] : n \in 1..MaxRows} : DistinctDates(rows)}

RECURSIVE Insert(_, _)
\* insertion of row x into the date-sorted sequence s (ascending)
Insert(s, x) ==
    IF s = <<>> THEN <<x>>
    ELSE IF s[Len(s)].date <= x.date THEN Append(s, x)
    ELSE Append(Insert(SubSeq(s, 1, Len(s) - 1), x), s[Len(s)])

RECURSIVE SortValues(_)
\* df.sort_values('date')
SortValues(rows) ==
    IF rows = <<>> THEN <<>>
    ELSE Insert(SortValues(SubSeq(rows, 1, Len(rows) - 1)), rows[Len(rows)])

LatestRowMutFileOrder(cols, rows) == Series(cols, rows[Len(rows)])

\* latest_row (main.py:36-38): read the file, sort by date, take the last
latest_row(cols, rows) == Series(cols, SortValues(rows)[Len(rows)])

(***************************************************************************)
(* The model artifacts (main.py:30-33).  The joblib files are opaque; a    *)
(* classifier is represented by a deterministic function of the feature    *)
(* row: a linear score of the weighted index, in units of 1e-5, clipped    *)
(* to [0, 1]; a regressor likewise, in thousandths of a point.  An         *)
(* estimator either rejects a nan feature (ValueError) or reads it as a    *)
(* missing value.                                                          *)
(***************************************************************************)
ProbOne == 100000

Classifier(h) == [intercept |-> 46336, coef |-> 2, nan |-> h]

\* cls_model.joblib: the classifier and its threshold, in units of 1e-5
ClsArtifacts ==
    {[model |-> Classifier("raise"), threshold |-> 35000],
     [model |-> Classifier("missing"), threshold |-> 50000],
     [model |-> Classifier("raise"), threshold |-> 50040],
     [model |-> Classifier("missing"), threshold |-> 50060]}

Regressors == {[intercept |-> 500, coef |-> 2, nan |-> "raise"]}

FeatsMutWeightsFirst ==
    [i \in 1..(2 * Len(CATS)) |->
        IF i <= Len(CATS) THEN <<"w_", CATS[i]>> ELSE <<"", CATS[i - Len(CATS)]>>]

\* main.py:22  FEATS = CATS + [f'w_{c}' for c in CATS]
FEATS ==
    [i \in 1..(2 * Len(CATS)) |->
        IF i <= Len(CATS) THEN <<"", CATS[i]>> ELSE <<"w_", CATS[i - Len(CATS)]>>]

\* float(latest[c]) for a column that is present
CellFloat(cell) == IF cell.k = "nan" THEN FNaN ELSE Rat(cell.n, 1000)

\* make_features (main.py:45-48): the dict row, then its columns in FEATS order
make_features(latest, w_norm) ==
    LET row == [f \in {<<p, c>> : p \in {"", "w_"}, c \in CatSet} |->
                  IF f[1] = "" THEN CellFloat(latest.cells[f[2]]) ELSE w_norm[f[2]]]
    IN  IF CatSet \ latest.cols # {}
        THEN [err |-> "KeyError", X |-> <<>>]          \* latest[c], no such column
        ELSE [err |-> "none", X |-> [i \in 1..Len(FEATS) |-> row[FEATS[i]]]]

HasNaN(X) == \E i \in 1..Len(X) : X[i].k = "nan"

\* a feature as the estimator reads it: nan as missing (0), tiny as 0
Seen(x) == IF x.k = "fin" THEN x ELSE FZero

RECURSIVE Score(_, _)
\* sum over the first i categories of index value times weight
Score(X, i) ==
    IF i = 0 THEN FZero
    ELSE LET a == Seen(X[i])
             b == Seen(X[i + Len(CATS)])
         IN  FAdd(Score(X, i - 1), Rat(a.n * b.n, a.d * b.d))

\* the weighted index in thousandths of a point, rounded down
ScoreMilli(X) == LET s == Score(X, Len(CATS)) IN (s.n * 1000) \div s.d

Clip(x, lo, hi) == IF x < lo THEN lo ELSE IF x > hi THEN hi ELSE x

\* CLF.predict_proba(X)[:, 1][0]  (main.py:65), in units of 1e-5
predict_proba(clf, X) ==
    IF HasNaN(X) /\ clf.nan = "raise"
    THEN [err |-> "ValueError", val |-> 0]
    ELSE [err |-> "none",
          val |-> Clip(clf.intercept + clf.coef * ScoreMilli(X), 0, ProbOne)]

\* REG.predict(X)[0]  (main.py:67), in thousandths of a point
reg_predict(reg, X) ==
    IF HasNaN(X) /\ reg.nan = "raise"
    THEN [err |-> "ValueError", val |-> 0]
    ELSE [err |-> "none", val |-> reg.intercept + reg.coef * ScoreMilli(X)]

(***************************************************************************)
(* round(x, ndigits) on fixed-point values: the multiple of unit nearest   *)
(* to x.  The modelled values never lie half way between two multiples     *)
(* (their last digit is even), so the direction of a tie is never asked.   *)
(***************************************************************************)
RoundTo(x, unit) ==
    LET q == x \div unit
        r == x % unit
    IN  IF 2 * r < unit THEN q * unit
        ELSE IF 2 * r > unit THEN (q + 1) * unit
        ELSE IF q % 2 = 0 THEN q * unit ELSE (q + 1) * unit

\* round(proba, 4), proba in units of 1e-5  (main.py:72)
Round4(p) == RoundTo(p, 10)

\* round(THR, 3), THR in units of 1e-5  (main.py:73)
Round3(t) == RoundTo(t, 100)

\* round(yhat, 2) and round(headline, 2), in thousandths  (main.py:69, 71)
Round2(y) == RoundTo(y, 10)

\* last['date'].strftime('%b %Y')  (main.py:70): month name and year of a
\* month ordinal
MonthAbbr ==
    <<"Jan", "Feb", "Mar", "Apr", "May", "Jun",
      "Jul", "Aug", "Sep", "Oct", "Nov", "Dec">>

Strftime(d) == [b |-> MonthAbbr[((d - 1) % 12) + 1], Y |-> (d - 1) \div 12]

\* round(float(last.get('Headline', float('nan'))), 2)  (main.py:69)
HeadlineOf(last) ==
    IF "Headline" \in last.cols /\ last.Headline.k = "fin"
    THEN Cell(Round2(last.Headline.n))
    ELSE EmptyCell

RiskFlagMutStrict(proba, thr) == IF proba > thr THEN "HIGH" ELSE "LOW"

RiskFlagMutHalf(proba, thr) == IF 2 * proba >= ProbOne THEN "HIGH" ELSE "LOW"

\* flag = 'HIGH' if proba >= THR else 'LOW'  (predict, main.py:66)
RiskFlag(proba, thr) == IF proba >= thr THEN "HIGH" ELSE "LOW"

\* flag = 'HIGH' if p >= THR else 'LOW'  (run, main.py:155)
RunRiskFlag(p, thr) == IF p >= thr THEN "HIGH" ELSE "LOW"

NoResp ==
    [latest_headline_cpih_pct |-> EmptyCell,
     latest_month |-> [b |-> "", Y |-> 0],
     forecast_personal_inflation_pct |-> 0,
     risk_probability |-> 0,
     threshold |-> 0,
     risk_flag |-> "",
     weights_normalized |-> ZeroMap]

(***************************************************************************)
(* The model calls of predict (main.py:64-67) and of run (main.py:153-156): *)
(* features, classifier, regressor.  err names the exception that ends     *)
(* them, invoked the models that were called before it ended.              *)
(***************************************************************************)
Infer(last, w, clf, reg) ==
    LET f == make_features(last, w)
        X == f.X
        p == predict_proba(clf, X)
        y == reg_predict(reg, X)
    IN  IF f.err # "none"
        THEN [err |-> f.err, X |-> <<>>, invoked |-> {}, returned |-> {},
              proba |-> 0, yhat |-> 0]
        ELSE IF p.err # "none"
        THEN [err |-> p.err, X |-> X, invoked |-> {"CLF"}, returned |-> {},
              proba |-> 0, yhat |-> 0]
        ELSE IF y.err # "none"
        THEN [err |-> y.err, X |-> X, invoked |-> {"CLF", "REG"}, returned |-> {"CLF"},
              proba |-> p.val, yhat |-> 0]
        ELSE [err |-> "none", X |-> X, invoked |-> {"CLF", "REG"},
              returned |-> {"CLF", "REG"}, proba |-> p.val, yhat |-> y.val]

\* the dict predict returns (main.py:68-76)
Response(last, w, thr, inf, flag) ==
    [latest_headline_cpih_pct |-> HeadlineOf(last),
     latest_month |-> Strftime(last.date),
     forecast_personal_inflation_pct |-> Round2(inf.yhat),
     risk_probability |-> Round4(inf.proba),
     threshold |-> Round3(thr),
     risk_flag |-> flag,
     weights_normalized |-> w]

\* predict (main.py:61-76) as a function of the payload and of the Series
\* its latest_row call returned: the exception it ends with, or the dict
Predict(payload, last, clf, thr, reg) ==
    LET n == normalize_weights(payload)
        inf == Infer(last, n.val, clf, reg)
    IN  IF n.err # "none" THEN [err |-> n.err, resp |-> NoResp]
        ELSE IF inf.err # "none" THEN [err |-> inf.err, resp |-> NoResp]
        ELSE [err |-> "none",
              resp |-> Response(last, n.val, thr, inf, RiskFlag(inf.proba, thr))]

(***************************************************************************)
(* Inputs.                                                                 *)
(***************************************************************************)
MaxKeys == 2

\* the six categories and a key outside them
Keys == CatSet \cup {"Other"}

PyVals == {PyNum(-1), PyNum(0), PyNum(1), PyNum(3),
           PyHuge, PyInf, PyNaN, PyStr, PyNull, PyObj}

ApiKeys == {"Food", "Misc", "Other"}

ApiVals == {PyNum(0), PyNum(1), PyNum(3), PyStr}

\* the dicts with at most MaxKeys entries
Dicts(keys, vals) ==
    UNION {[K -> vals] : K \in {S \in SUBSET keys : Cardinality(S) <= MaxKeys}}

NoneRaw == [none |-> TRUE, items |-> EmptyDict]

NormInputs == {NoneRaw} \cup {[none |-> FALSE, items |-> d] : d \in Dicts(Keys, PyVals)}

ApiInputs == {[none |-> FALSE, items |-> d] : d \in Dicts(ApiKeys, ApiVals)}

PairInputs ==
    {[none |-> FALSE, items |-> d] :
        d \in {EmptyDict, [c \in {"Food"} |-> PyNum(1)],
               [c \in {"Housing", "Misc"} |-> PyNum(3)]}}

\* main.py:125, main.py:133
defaults ==
    [c \in CatSet |->
        CASE c = "Housing" -> 35 [] c = "Food" -> 25 [] c = "Transport" -> 15
          [] c = "Health" -> 5 [] c = "Recreation" -> 8 [] OTHER -> 12]

SliderMin == 0
SliderMax == 100

\* the slider the modelled user moves
MovedSliders == {"Food"}

(***************************************************************************)
(* State.                                                                  *)
(***************************************************************************)
VARIABLES
    dataset,          \* the rows of the csv file, in file order
    columns,          \* the columns of the csv file
    CLF, THR, REG,    \* main.py:32-33
    latest_headline,  \* main.py:139, read once when the page is built
    req,              \* the /predict requests in flight: position and locals
    sliders,          \* main.py:124, slider values
    out,              \* main.py:147-149, the three output labels, and run's p
    nw                \* a direct call of normalize_weights: argument and result

vars == <<dataset, columns, CLF, THR, REG, latest_headline, req, sliders, out, nw>>

artifacts == <<CLF, THR, REG>>

Slots == {1, 2}

NoInf == [err |-> "none", X |-> <<>>, invoked |-> {}, returned |-> {}, proba |-> 0, yhat |-> 0]

IdleReq ==
    [pc |-> "idle", payload |-> [none |-> FALSE, items |-> EmptyDict],
     w |-> ZeroMap, last |-> NoSeries, inf |-> NoInf, flag |-> "",
     resp |-> NoResp, err |-> "none"]

NoOut == [ran |-> FALSE, p |-> 0, out_forecast |-> [y |-> 0, headline |-> EmptyCell],
          out_proba |-> [p |-> 0, thr |-> 0], out_flag |-> ""]

NwIdle == [pc |-> "idle", raw |-> NoneRaw, res |-> [err |-> "none", val |-> ZeroMap]]

\* the process after import: artifacts loaded, page built, nothing in flight
InitWith(datasets, colsets) ==
    /\ dataset \in datasets
    /\ columns \in colsets
    /\ \E cls \in ClsArtifacts : CLF = cls.model /\ THR = cls.threshold
    /\ REG \in Regressors
    /\ latest_headline = latest_row(columns, dataset).Headline
    /\ req = [r \in Slots |-> IdleReq]
    /\ sliders = defaults
    /\ out = NoOut
    /\ nw = NwIdle

Init == InitWith(Datasets, ColumnSets)

(***************************************************************************)
(* POST /predict (main.py:60-76), in the steps another thread can fall     *)
(* between: the request arrives and its weights are normalized; the        *)
(* dataset is read; the models run and the dict is returned.               *)
(***************************************************************************)
Receive(r, payload) ==
    /\ req[r].pc = "idle"
    /\ LET n == normalize_weights(payload)
       IN  req' = [req EXCEPT ![r] =
                IF n.err = "none"
                THEN [IdleReq EXCEPT !.pc = "normalized", !.payload = payload, !.w = n.val]
                ELSE [IdleReq EXCEPT !.pc = "failed", !.payload = payload, !.err = n.err]]
    /\ UNCHANGED <<dataset, columns, artifacts, latest_headline, sliders, out, nw>>

LatestRow(r) ==
    /\ req[r].pc = "normalized"
    /\ req' = [req EXCEPT ![r].pc = "read", ![r].last = latest_row(columns, dataset)]
    /\ UNCHANGED <<dataset, columns, artifacts, latest_headline, sliders, out, nw>>

FinishMutRecalibrate(r) ==
    /\ req[r].pc = "read"
    /\ LET inf == Infer(req[r].last, req[r].w, CLF, REG)
           flag == IF "CLF" \in inf.returned THEN RiskFlag(inf.proba, THR) ELSE ""
       IN  /\ req' = [req EXCEPT ![r] =
                  IF inf.err = "none"
                  THEN [@ EXCEPT !.pc = "done", !.inf = inf, !.flag = flag,
                                 !.resp = Response(req[r].last, req[r].w, THR, inf, flag)]
                  ELSE [@ EXCEPT !.pc = "failed", !.inf = inf, !.flag = flag,
                                 !.err = inf.err]]
           /\ THR' = IF inf.err = "none" THEN inf.proba ELSE THR
    /\ UNCHANGED <<dataset, columns, CLF, REG, latest_headline, sliders, out, nw>>

Finish(r) ==
    /\ req[r].pc = "read"
    /\ LET inf == Infer(req[r].last, req[r].w, CLF, REG)
           flag == IF "CLF" \in inf.returned THEN RiskFlag(inf.proba, THR) ELSE ""
       IN  req' = [req EXCEPT ![r] =
                IF inf.err = "none"
                THEN [@ EXCEPT !.pc = "done", !.inf = inf, !.flag = flag,
                               !.resp = Response(req[r].last, req[r].w, THR, inf, flag)]
                ELSE [@ EXCEPT !.pc = "failed", !.inf = inf, !.flag = flag,
                               !.err = inf.err]]
    /\ UNCHANGED <<dataset, columns, artifacts, latest_headline, sliders, out, nw>>

\* the response (or the error) has gone to the client
Close(r) ==
    /\ req[r].pc \in {"done", "failed"}
    /\ req' = [req EXCEPT ![r] = IdleReq]
    /\ UNCHANGED <<dataset, columns, artifacts, latest_headline, sliders, out, nw>>

(***************************************************************************)
(* The publisher: a record for a month not yet in the file is written at   *)
(* any place of the file.                                                  *)
(***************************************************************************)
Publish(row, pos) ==
    /\ Len(dataset) < MaxRows
    /\ \A i \in 1..Len(dataset) : dataset[i].date # row.date
    /\ dataset' = SubSeq(dataset, 1, pos) \o <<row>> \o SubSeq(dataset, pos + 1, Len(dataset))
    /\ UNCHANGED <<columns, artifacts, latest_headline, req, sliders, out, nw>>

(***************************************************************************)
(* The page (main.py:124-161).                                             *)
(***************************************************************************)
SetSlider(c, v) ==
    /\ sliders[c] # v
    /\ sliders' = [sliders EXCEPT ![c] = v]
    /\ UNCHANGED <<dataset, columns, artifacts, latest_headline, req, out, nw>>

\* run (main.py:151-159); an exception leaves the labels as they were
run ==
    LET weights == [none |-> FALSE, items |-> [c \in CatSet |-> PyNum(sliders[c])]]
        n == normalize_weights(weights)
        inf == Infer(latest_row(columns, dataset), n.val, CLF, REG)
    IN  /\ out' = IF n.err = "none" /\ inf.err = "none"
                  THEN [ran |-> TRUE, p |-> inf.proba,
                        out_forecast |-> [y |-> Round2(inf.yhat),
                                          headline |-> IF latest_headline.k = "fin"
                                                       THEN Cell(Round2(latest_headline.n))
                                                       ELSE EmptyCell],
                        out_proba |-> [p |-> Round3(inf.proba), thr |-> Round3(THR)],
                        out_flag |-> RunRiskFlag(inf.proba, THR)]
                  ELSE out
        /\ UNCHANGED <<dataset, columns, artifacts, latest_headline, req, sliders, nw>>

(***************************************************************************)
(* A direct call of normalize_weights.                                     *)
(***************************************************************************)
NormCall(raw) ==
    /\ nw.pc = "idle"
    /\ nw' = [pc |-> "returned", raw |-> raw, res |-> normalize_weights(raw)]
    /\ UNCHANGED <<dataset, columns, artifacts, latest_headline, req, sliders, out>>

NormReturn ==
    /\ nw.pc = "returned"
    /\ nw' = NwIdle
    /\ UNCHANGED <<dataset, columns, artifacts, latest_headline, req, sliders, out>>

(***************************************************************************)
(* Specifications.                                                         *)
(***************************************************************************)
PublishAny == \E row \in Rows, pos \in 0..Len(dataset) : Publish(row, pos)

\* one request at a time, every payload, every dataset and artifact
Next ==
    \/ req[1].pc = "idle" /\ \E p \in ApiInputs : Receive(1, p)
    \/ LatestRow(1)
    \/ Finish(1)
    \/ Close(1)
    \/ PublishAny

Spec == Init /\ [][Next]_vars

\* two requests in flight at once, over a complete file
InitPair == InitWith(Datasets, {AllColumns})

NextPair ==
    \/ \E r \in Slots, p \in PairInputs : Receive(r, p)
    \/ \E r \in Slots : LatestRow(r)
    \/ \E r \in Slots : Finish(r)
    \/ \E r \in Slots : Close(r)
    \/ PublishAny

SpecPair == InitPair /\ [][NextPair]_vars

\* the page and the API side by side
NextUI ==
    \/ \E p \in PairInputs : Receive(1, p)
    \/ LatestRow(1)
    \/ Finish(1)
    \/ Close(1)
    \/ \E c \in MovedSliders : \E v \in {SliderMin, defaults[c], SliderMax} : SetSlider(c, v)
    \/ run
    \/ PublishAny

SpecUI == Init /\ [][NextUI]_vars

\* normalize_weights alone, on every dict of at most MaxKeys entries
InitNorm ==
    /\ InitWith({<<Row(1, "none")>>}, {AllColumns})
    /\ CLF.nan = "raise"
    /\ THR = 35000

NextNorm ==
    \/ nw.pc = "idle" /\ \E raw \in NormInputs : NormCall(raw)
    \/ NormReturn

SpecNorm == InitNorm /\ [][NextNorm]_vars

(***************************************************************************)
(* Properties.                                                             *)
(***************************************************************************)
Completed(r) == req[r].pc \in {"done", "failed"}

\* the Series has a value for each of the six categories
HasAllValues(last) ==
    /\ CatSet \subseteq last.cols
    /\ \A c \in CatSet : last.cells[c].k = "fin"

\* C1: for a latest record with a value for all six categories, the feature
\* row has exactly 12 columns: columns 1..6 are the record's values for Food,
\* Housing, Transport, Health, Recreation, Misc in that order, columns 7..12
\* the normalized weights of the same categories in the same order.
C1_FeatureOrder ==
    \A r \in Slots :
        (Completed(r) /\ req[r].last # NoSeries /\ HasAllValues(req[r].last)) =>
            LET X == req[r].inf.X
                v == req[r].last.cells
                w == req[r].w
            IN  /\ Len(X) = 12
                /\ X[1] = Rat(v["Food"].n, 1000)
                /\ X[2] = Rat(v["Housing"].n, 1000)
                /\ X[3] = Rat(v["Transport"].n, 1000)
                /\ X[4] = Rat(v["Health"].n, 1000)
                /\ X[5] = Rat(v["Recreation"].n, 1000)
                /\ X[6] = Rat(v["Misc"].n, 1000)
                /\ X[7] = w["Food"]
                /\ X[8] = w["Housing"]
                /\ X[9] = w["Transport"]
                /\ X[10] = w["Health"]
                /\ X[11] = w["Recreation"]
                /\ X[12] = w["Misc"]

\* a request answered from a complete record with unequal weights 1/4 and 3/4
C1_Witness ==
    /\ req[1].pc = "done"
    /\ HasAllValues(req[1].last)
    /\ req[1].w["Food"] = Rat(1, 4)
    /\ req[1].w["Misc"] = Rat(3, 4)
    /\ req[1].inf.X[7] = Rat(1, 4)
    /\ req[1].inf.X[12] = Rat(3, 4)

\* the classifier returned a probability to request r
ProbaProduced(r) == Completed(r) /\ "CLF" \in req[r].inf.returned

CallDict == Dict(nw.raw)

\* a finite non-negative number
FiniteNonNeg(v) == (v.t = "num" /\ v.n >= 0) \/ v.t = "huge"

\* the entries of a normalized map add up to 1 (a tiny entry adds nothing
\* to a double near 1)
RECURSIVE SumEntries(_, _)
SumEntries(m, i) ==
    IF i = 0 THEN FZero
    ELSE FAdd(SumEntries(m, i - 1), Seen(m[CATS[i]]))

InUnit(x) == x.k = "tiny" \/ (x.k = "fin" /\ 0 <= x.n /\ x.n <= x.d)

\* C3: for every raw map whose values are non-negative numbers, at least one
\* fixed category positive, normalize_weights returns one entry per fixed
\* category, each in [0,1], and the six entries sum to 1.
C3_SumsToOne ==
    (/\ nw.pc = "returned"
     /\ \A k \in DOMAIN CallDict : FiniteNonNeg(CallDict[k])
     /\ \E c \in CatSet : c \in DOMAIN CallDict /\ FPositive(Float(CallDict[c])))
    => /\ nw.res.err = "none"
       /\ DOMAIN nw.res.val = CatSet
       /\ \A c \in CatSet : InUnit(nw.res.val[c])
       /\ SumEntries(nw.res.val, Len(CATS)) = FOne

\* every fixed category of the call is zero, negative or absent
NothingPositive ==
    \A c \in CatSet :
        c \in DOMAIN CallDict => (CallDict[c].t = "num" /\ CallDict[c].n <= 0)

\* C4: for every raw map in which every fixed category is zero, negative or
\* absent (an empty or missing map included), normalize_weights returns the
\* map that assigns 0 to each of the six categories, not 1/6 each, and
\* raises nothing.
C4_AllZero ==
    (nw.pc = "returned" /\ NothingPositive) =>
        /\ nw.res.err = "none"
        /\ nw.res.val = [c \in CatSet |-> FZero]

\* the call normalize_weights({'Food': -1, 'Misc': 0}) has returned
C4_Witness ==
    /\ nw.pc = "returned"
    /\ ~nw.raw.none
    /\ DOMAIN nw.raw.items = {"Food", "Misc"}
    /\ nw.raw.items["Food"] = PyNum(-1)
    /\ nw.raw.items["Misc"] = PyNum(0)
    /\ nw.res.val["Food"] = FZero

\* C5: normalize_weights never fails: for every raw map, a malformed entry
\* (a non-numeric string, null, a nested object) included, the call returns
\* a normalized map and raises nothing.
C5_NeverFails == nw.pc = "returned" => nw.res.err = "none"

\* the outcome of request r: the exception, or the dict returned
Outcome(r) == [err |-> req[r].err, resp |-> req[r].resp]

Without(payload, k) ==
    [none |-> payload.none,
     items |-> [x \in (DOMAIN payload.items) \ {k} |-> payload.items[x]]]

\* C6: a key outside the six categories, whatever its value, does not change
\* the result of predict, and a category sent as 0 gives the same result as
\* the payload without it.
C6_ForeignKeys ==
    \A r \in Slots :
        Completed(r) =>
            \A k \in DOMAIN req[r].payload.items :
                (k \notin CatSet \/ req[r].payload.items[k] = PyNum(0)) =>
                    Predict(Without(req[r].payload, k), req[r].last, CLF, THR, REG)
                        = Outcome(r)

\* a request with {'Food': 1, 'Other': 'abc'} has been answered
C6_Witness ==
    /\ req[1].pc = "done"
    /\ DOMAIN req[1].payload.items = {"Food", "Other"}
    /\ req[1].payload.items["Food"] = PyNum(1)
    /\ req[1].payload.items["Other"] = PyStr
    /\ req[1].resp.weights_normalized["Food"] = FOne

\* the greatest date of the file
MaxDateOf(rows) ==
    CHOOSE d \in {rows[i].date : i \in 1..Len(rows)} :
        \A i \in 1..Len(rows) : rows[i].date <= d

\* C7: every call of latest_row returns the record with the greatest date of
\* the dataset as it stands at that call, whatever the order of the rows;
\* a request that reads after an update builds its features, headline and
\* month from the new record.
C7_Step ==
    \A r \in Slots :
        (req[r].pc = "normalized" /\ req'[r].pc = "read") =>
            /\ req'[r].last.date = MaxDateOf(dataset)
            /\ \E i \in 1..Len(dataset) :
                  /\ dataset[i].date = MaxDateOf(dataset)
                  /\ req'[r].last.Headline = dataset[i].Headline
                  /\ req'[r].last.cells = dataset[i].cells

C7_Built ==
    \A r \in Slots :
        req[r].pc = "done" =>
            /\ req[r].resp.latest_month = Strftime(req[r].last.date)
            /\ req[r].resp.latest_headline_cpih_pct = HeadlineOf(req[r].last)
            /\ \A i \in 1..Len(CATS) :
                  req[r].inf.X[i] = CellFloat(req[r].last.cells[CATS[i]])

\* C7: each latest_row call returns the latest-dated record of the file as
\* it is at the call (C7_Step), and an answered request is built from the
\* record its call returned (C7_Built).
C7_LatestRecord == [][C7_Step]_vars /\ []C7_Built

\* the page was built when month 1 was the latest; month 2 was then written
\* in front of it, and a request has been answered from month 2
C7_Witness ==
    /\ latest_headline = Row(1, "none").Headline
    /\ Len(dataset) = 2
    /\ dataset[1].date = 2
    /\ dataset[2].date = 1
    /\ req[1].pc = "done"
    /\ req[1].last.date = 2
    /\ req[1].resp.latest_month = [b |-> "Feb", Y |-> 0]
    /\ req[1].resp.latest_headline_cpih_pct = Cell(Round2(Row(2, "none").Headline.n))

\* the Series lacks a value for a category: no such column, or an empty cell
LacksValue(last) ==
    \/ CatSet \ last.cols # {}
    \/ \E c \in CatSet : last.cells[c].k = "nan"

\* C8: if the latest record lacks a value for any of the six categories,
\* feature assembly fails before either model is invoked and predict returns
\* no result.
C8_FailsBeforeModels ==
    \A r \in Slots :
        (Completed(r) /\ req[r].last # NoSeries /\ LacksValue(req[r].last)) =>
            /\ req[r].pc = "failed"
            /\ req[r].inf.invoked = {}
            /\ req[r].resp = NoResp

\* C9: a request with given weights and an unchanged dataset returns exactly
\* what any other request with those weights returned, whatever requests ran
\* before or between, and no step of a request changes the artifacts, the
\* threshold or the dataset.
C9_Same ==
    \A r1, r2 \in Slots :
        (/\ Completed(r1) /\ Completed(r2)
         /\ req[r1].payload = req[r2].payload
         /\ req[r1].last = req[r2].last)
        => Outcome(r1) = Outcome(r2)

C9_Step == req' # req => UNCHANGED <<dataset, columns, CLF, THR, REG>>

\* C9: equal payload and equal record give equal results (C9_Same), and a
\* request's step changes no state another request reads (C9_Step).
C9_Stateless == []C9_Same /\ [][C9_Step]_vars

\* two answered requests with the same non-empty payload and the same record
C9_Witness ==
    /\ req[1].pc = "done"
    /\ req[2].pc = "done"
    /\ req[1].payload = req[2].payload
    /\ DOMAIN req[1].payload.items # {}
    /\ req[1].last = req[2].last
    /\ req[1].resp = req[2].resp

\* C10 as claimed: in every dict returned, risk_flag is 'HIGH' if and only if
\* the returned risk_probability (4 places) is >= the returned threshold
\* (3 places).
C10_RoundedAgree ==
    \A r \in Slots :
        req[r].pc = "done" =>
            (req[r].resp.risk_flag = "HIGH"
                <=> req[r].resp.risk_probability >= req[r].resp.threshold)

\* C10 as amended: risk_flag is 'HIGH' if and only if the unrounded
\* probability is >= the unrounded THR; the returned rounded fields stay
\* within 0.001 of that: HIGH implies risk_probability > threshold - 0.001,
\* LOW implies risk_probability < threshold + 0.001.
C10_RoundedNear ==
    \A r \in Slots :
        req[r].pc = "done" =>
            /\ req[r].resp.risk_flag = "HIGH" <=> req[r].inf.proba >= THR
            /\ req[r].resp.risk_flag = "HIGH" =>
                  req[r].resp.risk_probability > req[r].resp.threshold - 100
            /\ req[r].resp.risk_flag = "LOW" =>
                  req[r].resp.risk_probability < req[r].resp.threshold + 100

\* a dict with risk_flag 'LOW' whose risk_probability is >= its threshold
C10_Witness ==
    /\ req[1].pc = "done"
    /\ req[1].resp.risk_flag = "LOW"
    /\ req[1].inf.proba < THR
    /\ req[1].resp.risk_probability >= req[1].resp.threshold

=============================================================================
